---------------------------- MODULE Spec2Model ----------------------------
(***************************************************************************)
(* Poll scraper of t0lg-a/texas: src/fetch-data.js (variant "A") and       *)
(* src/fetch-data_RTW2.js (variant "B").                                   *)
(*                                                                         *)
(* A text is a JavaScript string.  It is held as [core, pad]: the          *)
(* characters of core followed by pad copies of PadChar, so that texts of  *)
(* a few thousand characters (the length limits of the block predicate,    *)
(* the 160-character fingerprint window, the 100-character pollster        *)
(* limit) are values TLC can enumerate.  PadChar occurs nowhere else in    *)
(* the texts of the model, so two texts are the same string exactly when   *)
(* they are the same record.  A character is a one-character string;       *)
(* "ndash" and "rsquo" stand for U+2013 and U+2019.                        *)
(***************************************************************************)
EXTENDS Integers, Sequences, FiniteSets, TLC

PadChar == "z"

UpperSeq == << "A","B","C","D","E","F","G","H","I","J","K","L","M",
               "N","O","P","Q","R","S","T","U","V","W","X","Y","Z" >>
LowerSeq == << "a","b","c","d","e","f","g","h","i","j","k","l","m",
               "n","o","p","q","r","s","t","u","v","w","x","y","z" >>
Upper == { UpperSeq[i] : i \in 1..26 }
Lower == { LowerSeq[i] : i \in 1..26 }
Letters == Upper \cup Lower
Digits == { "0","1","2","3","4","5","6","7","8","9" }
Spaces == { " ", "\n", "\t" }
Newlines == { "\n", "\r" }
WordChars == Letters \cup Digits \cup { "_" }
NameChars == Letters \cup { ".", "'", "rsquo", "-" }
Dashes == { "-", "ndash" }

Min(a, b) == IF a <= b THEN a ELSE b
Max(a, b) == IF a >= b THEN a ELSE b

\* String.prototype.toLowerCase, one character
LowerChar(c) ==
  IF c \in Upper THEN LowerSeq[CHOOSE i \in 1..26 : UpperSeq[i] = c] ELSE c

ToLower(s) == [ i \in 1..Len(s) |-> LowerChar(s[i]) ]

DigitVal(c) ==
  CASE c = "0" -> 0 [] c = "1" -> 1 [] c = "2" -> 2 [] c = "3" -> 3
    [] c = "4" -> 4 [] c = "5" -> 5 [] c = "6" -> 6 [] c = "7" -> 7
    [] c = "8" -> 8 [] c = "9" -> 9

(***************************************************************************)
(* Texts                                                                   *)
(***************************************************************************)
Txt(c, p) == [ core |-> c, pad |-> p ]
Empty == Txt(<< >>, 0)

\* String.prototype.length
TLen(t) == Len(t.core) + t.pad

\* the character at 1-based position i, "EOS" outside the string
At(t, i) ==
  IF i >= 1 /\ i <= Len(t.core) THEN t.core[i]
  ELSE IF i >= 1 /\ i <= TLen(t) THEN PadChar
  ELSE "EOS"

\* String.prototype.slice(0, n)
Slice0(t, n) ==
  IF n <= 0 THEN Empty
  ELSE IF Len(t.core) >= n THEN Txt(SubSeq(t.core, 1, n), 0)
  ELSE Txt(t.core, Min(t.pad, n - Len(t.core)))

\* the substring of positions a..b
Sub(t, a, b) ==
  LET lc == Len(t.core)
      hi == Min(b, TLen(t))
  IN  IF a > hi THEN Empty
      ELSE IF a > lc THEN Txt(<< >>, hi - a + 1)
      ELSE Txt(SubSeq(t.core, a, Min(hi, lc)), Max(0, hi - lc))

\* String.prototype.includes, for a pattern without PadChar
Includes(s, pat) ==
  \E i \in 1..(Len(s) - Len(pat) + 1) : SubSeq(s, i, i + Len(pat) - 1) = pat

\* String.prototype.startsWith
StartsWith(s, pat) ==
  Len(s) >= Len(pat) /\ SubSeq(s, 1, Len(pat)) = pat

\* the least i in lo..hi with P(i), 0 when there is none (lo >= 1)
First(lo, hi, P(_)) ==
  LET Found(i) == IF i > hi THEN 0 ELSE i
  IN  IF lo > hi THEN 0
      ELSE Found(CHOOSE i \in lo..(hi + 1) :
                   (i > hi \/ P(i)) /\ \A j \in lo..(i - 1) : ~ P(j))

\* the greatest i in lo..hi with P(i), 0 when there is none (lo >= 1)
Last(lo, hi, P(_)) ==
  LET Back(k) == IF k = 0 THEN 0 ELSE hi + lo - k
  IN  Back(First(lo, hi, LAMBDA k : P(hi + lo - k)))

\* the last position of the longest run of characters of S that starts at
\* i in the sequence s (i - 1 when there is none)
RunEnd(s, i, S) ==
  LET Before(stop) == IF stop = 0 THEN Len(s) ELSE stop - 1
  IN  IF i < 1 \/ i > Len(s) THEN i - 1
      ELSE Before(First(i, Len(s), LAMBDA j : s[j] \notin S))

\* String.prototype.trim
TrimEnd(s) == SubSeq(s, 1, Last(1, Len(s), LAMBDA j : s[j] \notin Spaces))

TrimStart(s) == SubSeq(s, RunEnd(s, 1, Spaces) + 1, Len(s))

Trim(t) ==
  IF t.pad > 0 THEN Txt(TrimStart(t.core), t.pad)
  ELSE Txt(TrimEnd(TrimStart(t.core)), 0)

\* replace(/\s+/g, ' '): every run of whitespace becomes one space
Collapse(s) ==
  LET keep == SelectSeq([ i \in 1..Len(s) |-> i ],
                        LAMBDA i : s[i] \notin Spaces \/ i = 1 \/ s[i - 1] \notin Spaces)
  IN  [ j \in 1..Len(keep) |-> IF s[keep[j]] \in Spaces THEN " " ELSE s[keep[j]] ]

\* clean = (s) => String(s || '').replace(/\s+/g, ' ').trim()
clean(t) == Trim(Txt(Collapse(t.core), t.pad))

(***************************************************************************)
(* Number(), Number.isFinite()                                             *)
(***************************************************************************)
RECURSIVE DigitsVal(_)
DigitsVal(s) ==
  IF s = << >> THEN 0
  ELSE DigitsVal(SubSeq(s, 1, Len(s) - 1)) * 10 + DigitVal(s[Len(s)])

RECURSIVE Pow10(_)
Pow10(k) == IF k = 0 THEN 1 ELSE 10 * Pow10(k - 1)

NaN == [ nan |-> TRUE, num |-> 0, den |-> 1 ]

\* Number(s) for a string of decimal digits with at most one ".":
\* the value is num / den.  Any other string is NaN.
Number(s) ==
  LET dots == { i \in 1..Len(s) : s[i] = "." }
  IN  IF \E i \in 1..Len(s) : s[i] \notin Digits \cup { "." } THEN NaN
      ELSE IF Cardinality(dots) > 1 \/ s = << "." >> THEN NaN
      ELSE IF dots = {} THEN [ nan |-> FALSE, num |-> DigitsVal(s), den |-> 1 ]
      ELSE LET d == CHOOSE i \in dots : TRUE
               ip == SubSeq(s, 1, d - 1)
               fp == SubSeq(s, d + 1, Len(s))
           IN  [ nan |-> FALSE,
                 num |-> DigitsVal(ip) * Pow10(Len(fp)) + DigitsVal(fp),
                 den |-> Pow10(Len(fp)) ]

NumberIsFinite(v) == ~ v.nan

(***************************************************************************)
(* extractResults                                                          *)
(***************************************************************************)
\* [A-Za-z][A-Za-z\.'rsquo\-]+ at i: its last position, 0 when it fails
WordEnd(c, i) ==
  IF i >= 1 /\ i <= Len(c) /\ c[i] \in Letters
  THEN LET AtLeastOne(e) == IF e >= i + 1 THEN e ELSE 0
       IN  AtLeastOne(RunEnd(c, i + 1, NameChars))
  ELSE 0

\* (?:\s+[A-Za-z][A-Za-z\.'rsquo\-]+){0,k} after position e, greedy
RECURSIVE NameEnd(_, _, _)
NameEnd(c, e, k) ==
  LET More(e2) == IF e2 > 0 THEN NameEnd(c, e2, k - 1) ELSE e
      Gap(w) == IF k > 0 /\ w >= e + 1 THEN More(WordEnd(c, w + 1)) ELSE e
  IN  Gap(RunEnd(c, e + 1, Spaces))

\* \d+(?:\.\d+)? at p: PctEnd without the limit on the digits
PctEndAnyDigits(c, p, maxd) ==
  LET Frac(d, f) == IF d + 1 <= Len(c) /\ c[d + 1] = "." /\ f >= d + 2 THEN f ELSE d
      Whole(d) == IF d < p THEN 0 ELSE Frac(d, RunEnd(c, d + 2, Digits))
  IN  Whole(RunEnd(c, p, Digits))

\* \d{1,maxd}(?:\.\d+)? at p, where the next pattern element cannot match a
\* digit or "." : its last position, 0 when it fails
PctEnd(c, p, maxd) ==
  LET Frac(d, f) == IF d + 1 <= Len(c) /\ c[d + 1] = "." /\ f >= d + 2 THEN f ELSE d
      Whole(d) == IF d < p \/ d - p + 1 > maxd THEN 0
                ELSE Frac(d, RunEnd(c, d + 2, Digits))
  IN  Whole(RunEnd(c, p, Digits))

NoMatch == [ ok |-> FALSE, end |-> 0, m1 |-> << >>, m2 |-> << >> ]

PrimaryMaxDigits == 2
PrimaryMoreWords == 4

\* /(Name(?:\s+Name){0,4})\s+(\d{1,2}(?:\.\d+)?)\s*%/ anchored at i
PrimaryAt(c, i) ==
  LET Sign(e, w, n, q) ==
        IF q <= Len(c) /\ c[q] = "%"
        THEN [ ok |-> TRUE, end |-> q,
               m1 |-> SubSeq(c, i, e), m2 |-> SubSeq(c, w + 1, n) ]
        ELSE NoMatch
      Pct(e, w, n) == IF n = 0 THEN NoMatch
                      ELSE Sign(e, w, n, RunEnd(c, n + 1, Spaces) + 1)
      Gap(e, w) == IF w < e + 1 THEN NoMatch
                   ELSE Pct(e, w, PctEnd(c, w + 1, PrimaryMaxDigits))
      Name(e) == Gap(e, RunEnd(c, e + 1, Spaces))
      Word(e1) == IF e1 = 0 THEN NoMatch ELSE Name(NameEnd(c, e1, PrimaryMoreWords))
  IN  Word(WordEnd(c, i))

\* re.exec(txt) from lastIndex: the leftmost match at or after from
PrimaryExec(c, from) ==
  LET Found(i) == IF i = 0 THEN NoMatch ELSE PrimaryAt(c, i)
  IN  Found(First(from, Len(c), LAMBDA j : PrimaryAt(c, j).ok))

\* while ((m = re.exec(txt)) !== null) { ... if (out.length >= cap) break; }
RECURSIVE PrimaryLoop(_, _, _, _)
PrimaryLoop(c, from, out, cap) ==
  LET Continue(m, out1) ==
        IF Len(out1) >= cap THEN out1 ELSE PrimaryLoop(c, m.end + 1, out1, cap)
      Push(m, pct) ==
        Continue(m, IF NumberIsFinite(pct)
                    THEN Append(out, [ choice |-> clean(Txt(m.m1, 0)).core, pct |-> pct ])
                    ELSE out)
      Body(m) == IF ~ m.ok THEN out ELSE Push(m, Number(m.m2))
  IN  Body(PrimaryExec(c, from))

IsWordAt(t, i) == At(t, i) \in WordChars

\* \b between positions i - 1 and i
BoundaryBefore(t, i) == IsWordAt(t, i - 1) # IsWordAt(t, i)

\* \d{1,2}(?:\.\d+)? at p, followed by \s*[-ndash] : its last position or 0
FirstNumEnd(c, p) == PctEnd(c, p, 2)

\* (\d{1,2}(?:\.\d+)?)\b at p: the fraction is taken when a word boundary
\* follows it, otherwise the digits alone when a boundary follows them
SecondNumEnd(t, p) ==
  LET Frac(d, f) ==
        IF At(t, d + 1) = "." /\ f >= d + 2 /\ ~ IsWordAt(t, f + 1) THEN f
        ELSE IF ~ IsWordAt(t, d + 1) THEN d
        ELSE 0
      Whole(d) == IF d < p \/ d - p + 1 > 2 THEN 0
                ELSE Frac(d, RunEnd(t.core, d + 2, Digits))
  IN  Whole(RunEnd(t.core, p, Digits))

\* /\b(\d{1,2}(?:\.\d+)?)\s*[-ndash]\s*(\d{1,2}(?:\.\d+)?)\b/ anchored at i
MarginAt(t, i) ==
  LET Second(n1, w2, n2) ==
        IF n2 = 0 THEN NoMatch
        ELSE [ ok |-> TRUE, end |-> n2,
               m1 |-> SubSeq(t.core, i, n1), m2 |-> SubSeq(t.core, w2 + 1, n2) ]
      Gap(n1, w2) == Second(n1, w2, SecondNumEnd(t, w2 + 1))
      Dash(n1, w1) ==
        IF w1 + 1 > Len(t.core) \/ t.core[w1 + 1] \notin Dashes THEN NoMatch
        ELSE Gap(n1, RunEnd(t.core, w1 + 2, Spaces))
      Num(n1) == IF ~ BoundaryBefore(t, i) \/ n1 = 0 THEN NoMatch
                 ELSE Dash(n1, RunEnd(t.core, n1 + 1, Spaces))
  IN  Num(FirstNumEnd(t.core, i))

\* txt.match(re2): the leftmost match
MarginMatch(t, from) ==
  LET Found(i) == IF i = 0 THEN NoMatch ELSE MarginAt(t, i)
  IN  Found(First(from, Len(t.core), LAMBDA j : MarginAt(t, j).ok))

ChoiceA == << "A" >>
ChoiceB == << "B" >>

\* extractResults(txt); cap is 10 in fetch-data.js and 12 in fetch-data_RTW2.js
extractResults(t, cap) ==
  LET Pair(out, a, b) ==
        IF NumberIsFinite(a) /\ NumberIsFinite(b)
        THEN << [ choice |-> ChoiceA, pct |-> a ], [ choice |-> ChoiceB, pct |-> b ] >>
        ELSE out
      Margin(out, m2) == IF m2.ok THEN Pair(out, Number(m2.m1), Number(m2.m2)) ELSE out
      Fallback(out) == IF Len(out) = 0 THEN Margin(out, MarginMatch(t, 1)) ELSE out
  IN  Fallback(PrimaryLoop(t.core, 1, << >>, cap))

(***************************************************************************)
(* Lines: txt.split(/\n+/).map(clean).filter(Boolean)                      *)
(***************************************************************************)
NL == { "\n" }

\* the position of the first newline at or after i, Len(c) + 1 when none
NextNL(c, i) ==
  LET OrEnd(n) == IF n = 0 THEN Len(c) + 1 ELSE n
  IN  OrEnd(First(i, Len(c), LAMBDA j : c[j] \in NL))

\* the pieces of split(/\n+/): sequences of characters; the last piece is
\* the one the padding follows
RECURSIVE SplitNL(_)
SplitNL(c) ==
  LET Cut(n) ==
        IF n > Len(c) THEN << c >>
        ELSE << SubSeq(c, 1, n - 1) >> \o SplitNL(SubSeq(c, RunEnd(c, n, NL) + 1, Len(c)))
  IN  Cut(NextNL(c, 1))

Lines(t) ==
  LET Cleaned(ps) ==
        [ i \in 1..Len(ps) |-> clean(Txt(ps[i], IF i = Len(ps) THEN t.pad ELSE 0)) ]
  IN  SelectSeq(Cleaned(SplitNL(t.core)), LAMBDA l : TLen(l) > 0)

\* Array.prototype.slice(0, n)
FirstN(q, n) == SubSeq(q, 1, Min(n, Len(q)))

(***************************************************************************)
(* extractDateText                                                         *)
(***************************************************************************)
\* (Jan|Feb|...|Sep|Sept|...|Dec) under the i flag; "Sept" is never chosen,
\* "Sep" precedes it and [a-z]* takes the "t"
Months ==
  { << "j", "a", "n" >>,
    << "f", "e", "b" >>,
    << "m", "a", "r" >>,
    << "a", "p", "r" >>,
    << "m", "a", "y" >>,
    << "j", "u", "n" >>,
    << "j", "u", "l" >>,
    << "a", "u", "g" >>,
    << "s", "e", "p" >>,
    << "o", "c", "t" >>,
    << "n", "o", "v" >>,
    << "d", "e", "c" >> }

\* \d{1,2} at p, greedy, nothing required after it: its last position or 0
UpTo2Digits(c, p) ==
  LET AtMost2(d) == IF d < p THEN 0 ELSE Min(d, p + 1)
  IN  AtMost2(RunEnd(c, p, Digits))

\* (?:\s*[-ndash]\s*\d{1,2})? after position e: the new last position
DayRangeEnd(c, e) ==
  LET Day(d) == IF d > 0 THEN d ELSE e
      Gap(w2) == Day(UpTo2Digits(c, w2 + 1))
      Dash(w1) == IF w1 + 1 <= Len(c) /\ c[w1 + 1] \in Dashes
                  THEN Gap(RunEnd(c, w1 + 2, Spaces))
                  ELSE e
  IN  Dash(RunEnd(c, e + 1, Spaces))

\* (?:,?\s*\d{4})? after position e: the new last position
YearEnd(c, e) ==
  LET Year(w, y) == IF y - w >= 4 THEN w + 4 ELSE e
      Gap(w) == Year(w, RunEnd(c, w + 1, Digits))
      Comma(k) == Gap(RunEnd(c, k + 1, Spaces))
  IN  Comma(IF e + 1 <= Len(c) /\ c[e + 1] = "," THEN e + 1 ELSE e)

\* dateRe anchored at i: the last position of the match or 0
DateAt(c, i) ==
  LET Day(d) == IF d = 0 THEN 0 ELSE YearEnd(c, DayRangeEnd(c, d))
      Gap(r, w) == IF w < r + 1 THEN 0 ELSE Day(UpTo2Digits(c, w + 1))
      Rest(r) == Gap(r, RunEnd(c, r + 1, Spaces))
  IN  IF i + 2 > Len(c) THEN 0
      ELSE IF ToLower(SubSeq(c, i, i + 2)) \notin Months THEN 0
      ELSE Rest(RunEnd(c, i + 3, Letters))

\* \d{1,2}\/\d{1,2}(?:\/\d{2,4})? at p: the last position or 0
SlashDateEnd(c, p) ==
  LET Year(d2, y) == IF d2 + 1 <= Len(c) /\ c[d2 + 1] = "/" /\ y - (d2 + 1) >= 2
                     THEN Min(y, d2 + 5)
                     ELSE d2
      Second(d2) == IF d2 = 0 THEN 0 ELSE Year(d2, RunEnd(c, d2 + 2, Digits))
      Slash(d1) == IF d1 < p \/ d1 - p + 1 > 2 THEN 0
                   ELSE IF d1 + 1 > Len(c) \/ c[d1 + 1] # "/" THEN 0
                   ELSE Second(UpTo2Digits(c, d1 + 2))
  IN  Slash(RunEnd(c, p, Digits))

\* numRe anchored at i: the last position of the match or 0
NumDateAt(c, i) ==
  LET Second(e, e2) == IF e2 > 0 THEN e2 ELSE e
      Gap(e, w2) == Second(e, SlashDateEnd(c, w2 + 1))
      Dash(e, w1) == IF w1 + 1 <= Len(c) /\ c[w1 + 1] \in Dashes
                     THEN Gap(e, RunEnd(c, w1 + 2, Spaces))
                     ELSE e
      Date(e) == IF ~ BoundaryBefore(Txt(c, 0), i) \/ e = 0 THEN 0
                 ELSE Dash(e, RunEnd(c, e + 1, Spaces))
  IN  Date(SlashDateEnd(c, i))

\* re is "dateRe" or "numRe": the regex anchored at i
RegexAt(re, c, i) == IF re = "dateRe" THEN DateAt(c, i) ELSE NumDateAt(c, i)

\* line.match(re): m[0] of the leftmost match, << >> standing for null
\* (both regexes match at least 3 characters)
LineMatch(re, c, from) ==
  LET Found(i) == IF i = 0 THEN << >> ELSE SubSeq(c, i, RegexAt(re, c, i))
  IN  Found(First(from, Len(c), LAMBDA j : RegexAt(re, c, j) > 0))

\* for (const line of lines) { const m = line.match(re); if (m) return m[0]; }
RECURSIVE FirstLineMatch(_, _)
FirstLineMatch(re, lines) ==
  LET Try(m) == IF m # << >> THEN m ELSE FirstLineMatch(re, Tail(lines))
  IN  IF lines = << >> THEN << >> ELSE Try(LineMatch(re, lines[1].core, 1))

\* extractDateText(txt); look is 8 lines in fetch-data.js, 12 in
\* fetch-data_RTW2.js.  The result is a sequence of characters.
extractDateText(t, look) ==
  LET Numeric(lines, m) == IF m # << >> THEN m ELSE FirstLineMatch("numRe", lines)
      Named(lines) == Numeric(lines, FirstLineMatch("dateRe", lines))
  IN  Named(FirstN(Lines(t), look))

(***************************************************************************)
(* isLikelyPollBlock and the inline predicate of fetch-data.js             *)
(***************************************************************************)
Keywords ==
  { << "l", "v" >>,
    << "r", "v" >>,
    << "l", "i", "k", "e", "l", "y", " ", "v", "o", "t", "e", "r", "s" >>,
    << "r", "e", "g", "i", "s", "t", "e", "r", "e", "d", " ", "v", "o", "t", "e", "r", "s" >>,
    << "n", "=" >>,
    << "p", "o", "l", "l" >>,
    << "s", "u", "r", "v", "e", "y" >>,
    << "a", "p", "p", "r", "o", "v", "e" >>,
    << "d", "i", "s", "a", "p", "p", "r", "o", "v", "e" >>,
    << "b", "a", "l", "l", "o", "t" >>,
    << "s", "e", "n", "a", "t", "e" >>,
    << "g", "o", "v", "e", "r", "n", "o", "r" >>,
    << "h", "o", "u", "s", "e" >>,
    << "p", "r", "i", "m", "a", "r", "y" >>,
    << "r", "e", "p", "u", "b", "l", "i", "c", "a", "n" >>,
    << "d", "e", "m", "o", "c", "r", "a", "t" >>,
    << "g", "o", "p" >>,
    << "d", "e", "m" >> }

Percent == << "%" >>

MinLenA == 20
MaxLenA == 1200
MinLenB == 25
MaxLenB == 2200

\* fetch-data.js: txt.includes('%') && txt.length >= 20 && txt.length <= 1200
isPollBlockA(t) ==
  Includes(t.core, Percent) /\ TLen(t) >= MinLenA /\ TLen(t) <= MaxLenA

\* isLikelyPollBlock without the bounds on the length
isLikelyPollBlockAnyLength(t) ==
  IF TLen(t) = 0 THEN FALSE
  ELSE IF ~ Includes(t.core, Percent) THEN FALSE
  ELSE \E k \in Keywords : Includes(ToLower(t.core), k)

\* fetch-data_RTW2.js: isLikelyPollBlock(txt)
isLikelyPollBlock(t) ==
  IF TLen(t) = 0 THEN FALSE
  ELSE IF ~ Includes(t.core, Percent) THEN FALSE
  ELSE IF TLen(t) < MinLenB \/ TLen(t) > MaxLenB THEN FALSE
  ELSE \E k \in Keywords : Includes(ToLower(t.core), k)

(***************************************************************************)
(* pickPollster                                                            *)
(***************************************************************************)
PollsterWord == << "p", "o", "l", "l", "s", "t", "e", "r" >>
Labels == << << "p", "o", "l", "l", "s", "t", "e", "r" >>, << "p", "o", "l", "l" >>, << "f", "i", "r", "m" >> >>

PollsterMaxFirstLineA == 48
PollsterMaxLenB == 100
PollsterLookB == 10

\* [^\n\r]+ from s: the last position of the line that position s is on
LineEnd(t, s) ==
  LET Before(n) == IF n = 0 THEN TLen(t) ELSE n - 1
  IN  Before(First(s, Len(t.core), LAMBDA j : t.core[j] \in Newlines))

\* the last position e in s..hi with a word boundary after it, 0 when none
\* (hi is the end of the text or a position of core)
LastBoundary(t, s, hi) ==
  IF hi = TLen(t) /\ t.pad > 0 THEN hi
  ELSE Last(s, hi, LAMBDA j : IsWordAt(t, j) # IsWordAt(t, j + 1))

\* /\bPollster\s*:\s*([^\n\r]+)\b/i anchored at i: m[1], or NoCapture.
\* The capture starts after the whitespace that follows the colon: when no
\* word boundary lies in the rest of that line, none lies in the whitespace
\* before it either, so giving whitespace back never finds a match.
NoCapture == [ ok |-> FALSE, m1 |-> Empty ]

PollsterAt(t, i) ==
  LET Capture(s, e) == IF e = 0 THEN NoCapture ELSE [ ok |-> TRUE, m1 |-> Sub(t, s, e) ]
      Value(s) == IF s > TLen(t) THEN NoCapture
                  ELSE Capture(s, LastBoundary(t, s, LineEnd(t, s)))
      Colon(k) == IF k > Len(t.core) \/ t.core[k] # ":" THEN NoCapture
                  ELSE Value(RunEnd(t.core, k + 1, Spaces) + 1)
  IN  IF ~ BoundaryBefore(t, i) \/ i + 7 > Len(t.core) THEN NoCapture
      ELSE IF ToLower(SubSeq(t.core, i, i + 7)) # PollsterWord THEN NoCapture
      ELSE Colon(RunEnd(t.core, i + 8, Spaces) + 1)

PollsterMatch(t, from) ==
  LET Found(i) == IF i = 0 THEN NoCapture ELSE PollsterAt(t, i)
  IN  Found(First(from, Len(t.core), LAMBDA j : PollsterAt(t, j).ok))

\* fetch-data.js: pickPollster(txt)
pickPollsterA(t) ==
  LET FirstLine(lines) ==
        IF lines = << >> THEN Empty
        ELSE IF TLen(lines[1]) <= PollsterMaxFirstLineA
                /\ ~ Includes(lines[1].core, Percent)
             THEN lines[1]
             ELSE Empty
      Labeled(m) == IF m.ok THEN clean(m.m1) ELSE FirstLine(Lines(t))
  IN  Labeled(PollsterMatch(t, 1))

\* /^(?:Pollster|Poll|Firm)\s*:?\s*(.+)$/i on a cleaned line, for the
\* alternative lab: m[1], or NoCapture.  (.+) takes the rest of the line
\* after the label, the whitespace and the colon; when nothing is left it
\* takes back the last character those consumed.
LabelAt(line, lab) ==
  LET c == line.core
      k == Len(lab)
      Value(r) ==
        IF r <= TLen(line) THEN [ ok |-> TRUE, m1 |-> Sub(line, r, TLen(line)) ]
        ELSE IF r - 1 > k THEN [ ok |-> TRUE, m1 |-> Sub(line, r - 1, TLen(line)) ]
        ELSE NoCapture
      Colon(n) == Value(RunEnd(c, n + 1, Spaces) + 1)
      Gap(w) == Colon(IF w + 1 <= Len(c) /\ c[w + 1] = ":" THEN w + 1 ELSE w)
  IN  IF Len(c) < k \/ ToLower(SubSeq(c, 1, k)) # lab THEN NoCapture
      ELSE Gap(RunEnd(c, k + 1, Spaces))

LabelMatch(line) ==
  LET Alt(k) == IF k = 0 THEN NoCapture ELSE LabelAt(line, Labels[k])
  IN  Alt(First(1, Len(Labels), LAMBDA k : LabelAt(line, Labels[k]).ok))

RECURSIVE FirstLabel(_)
FirstLabel(lines) ==
  LET Try(m) == IF m.ok THEN m ELSE FirstLabel(Tail(lines))
  IN  IF lines = << >> THEN NoCapture ELSE Try(LabelMatch(lines[1]))

\* fetch-data_RTW2.js: pickPollster(txt)
pickPollsterB(t) ==
  LET Pick(lines, m) ==
        IF m.ok THEN Slice0(m.m1, PollsterMaxLenB)
        ELSE IF lines # << >> THEN Slice0(lines[1], PollsterMaxLenB)
        ELSE Empty
      Labeled(lines) == Pick(lines, FirstLabel(FirstN(lines, PollsterLookB)))
  IN  Labeled(Lines(t))

(***************************************************************************)
(* Links.  An anchor has the attribute value getAttribute('href') and the  *)
(* resolved URL a.href; both are sequences of characters.                  *)
(***************************************************************************)
SourceSite == << "r", "a", "c", "e", "t", "o", "t", "h", "e", "w", "h", ".", "c", "o", "m" >>
Http == << "h", "t", "t", "p" >>
SocialSites == { << "t", "w", "i", "t", "t", "e", "r", ".", "c", "o", "m" >>, << "x", ".", "c", "o", "m" >>, << "f", "a", "c", "e", "b", "o", "o", "k", ".", "c", "o", "m" >>, << "i", "n", "s", "t", "a", "g", "r", "a", "m", ".", "c", "o", "m" >>, << "y", "o", "u", "t", "u", "b", "e", ".", "c", "o", "m" >>, << "t", "i", "k", "t", "o", "k", ".", "c", "o", "m" >> }

\* fetch-data.js: isExternalPollUrl(href)
isExternalPollUrl(href) ==
  LET h == ToLower(href)
  IN  IF href = << >> THEN FALSE
      ELSE IF ~ StartsWith(h, Http) THEN FALSE
      ELSE IF Includes(h, SourceSite) THEN FALSE
      ELSE ~ \E d \in SocialSites : Includes(h, d)

\* fetch-data_RTW2.js: isNoiseHref(href)
isNoiseHref(href) ==
  LET h == ToLower(href)
  IN  IF href = << >> THEN TRUE
      ELSE IF StartsWith(h, << "#" >>) THEN TRUE
      ELSE IF StartsWith(h, << "m", "a", "i", "l", "t", "o", ":" >>) \/ StartsWith(h, << "t", "e", "l", ":" >>) THEN TRUE
      ELSE \E d \in SocialSites : Includes(h, d)

\* hl.startsWith('http') && !hl.includes('racetothewh.com'), hl = h.toLowerCase()
isOutbound(h) ==
  StartsWith(ToLower(h), Http) /\ ~ Includes(ToLower(h), SourceSite)

\* h && h.startsWith('http') && !h.toLowerCase().includes('racetothewh.com')
isOutboundFallback(h) ==
  h # << >> /\ StartsWith(h, Http) /\ ~ Includes(ToLower(h), SourceSite)

\* The links of the model's pages: attribute value and resolved URL.
Link(attr, href) == [ attr |-> attr, href |-> href ]
NoLink == Link(<< >>, << >>)
ExtP == Link(<< "h", "t", "t", "p", ":", "/", "/", "e", ".", "c", "o", "m", "/", "p" >>, << "h", "t", "t", "p", ":", "/", "/", "e", ".", "c", "o", "m", "/", "p" >>)
ExtPQ == Link(<< "h", "t", "t", "p", ":", "/", "/", "e", ".", "c", "o", "m", "/", "p", "|", "q" >>, << "h", "t", "t", "p", ":", "/", "/", "e", ".", "c", "o", "m", "/", "p", "|", "q" >>)
ExtF == Link(<< "h", "t", "t", "p", "s", ":", "/", "/", "f", ".", "o", "r", "g", "/", "r" >>, << "h", "t", "t", "p", "s", ":", "/", "/", "f", ".", "o", "r", "g", "/", "r" >>)
IntA == Link(<< "/", "a" >>, << "h", "t", "t", "p", "s", ":", "/", "/", "w", "w", "w", ".", "r", "a", "c", "e", "t", "o", "t", "h", "e", "w", "h", ".", "c", "o", "m", "/", "a" >>)
IntB == Link(<< "/", "b" >>, << "h", "t", "t", "p", "s", ":", "/", "/", "w", "w", "w", ".", "r", "a", "c", "e", "t", "o", "t", "h", "e", "w", "h", ".", "c", "o", "m", "/", "b" >>)
Social == Link(<< "h", "t", "t", "p", "s", ":", "/", "/", "t", "w", "i", "t", "t", "e", "r", ".", "c", "o", "m", "/", "u" >>, << "h", "t", "t", "p", "s", ":", "/", "/", "t", "w", "i", "t", "t", "e", "r", ".", "c", "o", "m", "/", "u" >>)
Frag == Link(<< "#", "t", "o", "p" >>, << "h", "t", "t", "p", "s", ":", "/", "/", "w", "w", "w", ".", "r", "a", "c", "e", "t", "o", "t", "h", "e", "w", "h", ".", "c", "o", "m", "/", "a", "l", "l", "p", "o", "l", "l", "s", "#", "t", "o", "p" >>)

(***************************************************************************)
(* Pages.  A document is the sequence of its elements in document order.   *)
(* An element has a tag ("div" stands for div, li, p, article and section, *)
(* "nav" for header, nav and footer, "span" for any other element), the    *)
(* index of its parent (0 for body, whose parent has the same innerText    *)
(* and is never nearer), its innerText and, for an anchor, its link.       *)
(*                                                                         *)
(* A page is made of sections, the children of body.  A section is given   *)
(* as nodes: node k has the text start at its beginning, then its          *)
(* children, each preceded in the parent by its text before, then the      *)
(* text end.  innerText is computed from that, so the text of an element   *)
(* contains the texts of its descendants.                                  *)
(***************************************************************************)
Node(tag, up, before, start, end, link) ==
  [ tag |-> tag, up |-> up, before |-> before, start |-> start, end |-> end,
    attr |-> link.attr, href |-> link.href ]

T0(c) == Txt(c, 0)
PadOnly(n) == Txt(<< >>, n)

CardLead == << "S", "m", "i", "t", "h", " ", "4", "7", "%", " ", "J", "o", "n", "e", "s", " ", "4", "3", "%", " ", "L", "V", " " >>
PollWord == << "p", "o", "l", "l" >>

\* one poll, one outbound link: "Smith 47% Jones 43% LV poll"
Card(link, pad) ==
  << Node("div", 0, Empty, T0(CardLead), PadOnly(pad), NoLink),
     Node("a", 1, Empty, T0(PollWord), Empty, link) >>

\* a labelled, dated poll with a social link and two outbound links
Twin ==
  << Node("div", 0, Empty, T0(<< "P", "o", "l", "l", "s", "t", "e", "r", ":", " ", "M", "a", "r", "i", "s", "t", "\n", "J", "a", "n", " ", "5", "\n", "L", "e", "e", " ", "5", "1", "%", " ", "R", "o", "e", " ", "4", "0", "%", " ", "R", "V", " " >>), Empty, NoLink),
     Node("a", 1, Empty, T0(<< "s", "h", "a", "r", "e" >>), Empty, Social),
     Node("a", 1, T0(<< " " >>), T0(PollWord), Empty, ExtP),
     Node("a", 1, T0(<< " " >>), T0(<< "s", "r", "c" >>), Empty, ExtF) >>

\* percentages without a name before them and no NN-NN margin
NoRes ==
  << Node("div", 0, Empty, T0(<< "4", "7", "%", " ", "-", " ", "4", "3", "%", " ", "a", "p", "p", "r", "o", "v", "e", " ", "s", "e", "n", "a", "t", "e", " " >>), Empty, NoLink),
     Node("a", 1, Empty, T0(PollWord), Empty, ExtP) >>

\* a poll whose links all point to the source site, the first inside a nav,
\* the last a fragment link
NavInt ==
  << Node("div", 0, Empty, Empty, Empty, NoLink),
     Node("nav", 1, Empty, Empty, Empty, NoLink),
     Node("a", 2, Empty, T0(<< "h", "o", "m", "e" >>), Empty, IntA),
     Node("a", 1, T0(<< "\n", "S", "m", "i", "t", "h", " ", "4", "7", "%", " ", "J", "o", "n", "e", "s", " ", "4", "3", "%", " ", "L", "V", " " >>), T0(PollWord), Empty, IntB),
     Node("a", 1, T0(<< " " >>), T0(<< "t", "o", "p" >>), Empty, Frag) >>

\* ten characters: "Poll A 47%"
Short ==
  << Node("div", 0, Empty, T0(<< "P", "o", "l", "l", " ", "A", " " >>), Empty, NoLink),
     Node("a", 1, Empty, T0(<< "4", "7", "%" >>), Empty, ExtP) >>

\* the text of Card behind "q|"
BarText ==
  << Node("div", 0, Empty, T0(<< "q", "|", "S", "m", "i", "t", "h", " ", "4", "7", "%", " ", "J", "o", "n", "e", "s", " ", "4", "3", "%", " ", "L", "V", " " >>), Empty, NoLink),
     Node("a", 1, Empty, T0(PollWord), Empty, ExtP) >>

\* a poll inside a wrapper whose text goes on after it
Nested(padIn, padOut) ==
  << Node("div", 0, Empty, Empty, PadOnly(padOut), NoLink),
     Node("div", 1, Empty, T0(CardLead), PadOnly(padIn), NoLink),
     Node("a", 2, Empty, T0(PollWord), Empty, ExtP) >>

\* a Pollster line of more than 100 characters
LongLabel(pad) ==
  << Node("div", 0, Empty, T0(<< "S", "m", "i", "t", "h", " ", "4", "7", "%", " ", "L", "V", "\n", "P", "o", "l", "l", "s", "t", "e", "r", ":", " " >>), PadOnly(pad), NoLink),
     Node("a", 1, Empty, T0(<< "M", "o", "r", "e" >>), Empty, ExtP) >>

ListCards == 10

\* the k-th outbound link of a list: "http://e.com/pa", "http://e.com/pb", ...
CardLink(k) == Link(ExtP.attr \o << LowerSeq[k] >>, ExtP.href \o << LowerSeq[k] >>)

\* a list of n polls, each in its own container with its own outbound link
List(n) ==
  [ i \in 1..(2 * n + 1) |->
      IF i = 1 THEN Node("div", 0, Empty, Empty, Empty, NoLink)
      ELSE IF i % 2 = 0
           THEN Node("div", 1, IF i > 2 THEN T0(<< "\n" >>) ELSE Empty,
                     T0(CardLead), Empty, NoLink)
           ELSE Node("a", i - 1, Empty, T0(PollWord), Empty, CardLink((i - 1) \div 2)) ]

\* a poll whose link lies n elements below it: the container, n - 1 nested
\* spans and the link, so that the container is element n of the chain link,
\* parent, grandparent, ... (the link being element 0)
Deep(n) ==
  [ i \in 1..(n + 1) |->
      IF i = 1 THEN Node("div", 0, Empty, T0(CardLead), Empty, NoLink)
      ELSE IF i <= n THEN Node("span", i - 1, Empty, Empty, Empty, NoLink)
      ELSE Node("a", n, Empty, T0(PollWord), Empty, ExtP) ]

\* Section kinds; those whose text ends in padding come last
PlainKinds == << "Card", "CardQ", "Twin", "NoRes", "NavInt", "Short", "BarText", "List",
                "Deep8", "Deep10" >>
PaddedKinds == << "Nested", "LongLabel", "Wide", "Huge" >>
Kinds == PlainKinds \o PaddedKinds

Section(kind) ==
  CASE kind = "Card"      -> Card(ExtP, 0)
    [] kind = "CardQ"     -> Card(ExtPQ, 0)
    [] kind = "Twin"      -> Twin
    [] kind = "NoRes"     -> NoRes
    [] kind = "NavInt"    -> NavInt
    [] kind = "Short"     -> Short
    [] kind = "BarText"   -> BarText
    [] kind = "List"      -> List(ListCards)
    [] kind = "Deep8"     -> Deep(8)
    [] kind = "Deep10"    -> Deep(10)
    [] kind = "Nested"    -> Nested(200, 100)
    [] kind = "LongLabel" -> LongLabel(120)
    [] kind = "Wide"      -> Card(ExtP, 1500)
    [] kind = "Huge"      -> Card(ExtP, 2973)

\* a ++ b, for a without padding or b nothing but padding
TCat(a, b) ==
  IF a.pad = 0 THEN Txt(a.core \o b.core, b.pad) ELSE Txt(a.core, a.pad + b.pad)

CanCat(a, b) == a.pad = 0 \/ b.core = << >>

\* The nodes are in document order, so that the subtree of node k is the
\* range k..SubtreeEnd(nodes, k).
SubtreeEnd(nodes, k) ==
  LET Before(i) == IF i = 0 THEN Len(nodes) ELSE i - 1
  IN  Before(First(k + 1, Len(nodes), LAMBDA i : nodes[i].up < k))

\* ps[lo] ++ ... ++ ps[hi]
RECURSIVE CatRange(_, _, _)
CatRange(ps, lo, hi) ==
  IF lo > hi THEN Empty
  ELSE IF lo = hi THEN ps[lo]
  ELSE TCat(CatRange(ps, lo, (lo + hi) \div 2),
            CatRange(ps, (lo + hi) \div 2 + 1, hi))

\* what the text of node k has after the start of node i: the ends of the
\* nodes of k's subtree whose last node is i, the innermost first
Closes(nodes, ends, k, i) ==
  LET Ordered(js) ==
        [ r \in 1..Cardinality(js) |->
            nodes[CHOOSE j \in js : Cardinality({ x \in js : x > j }) = r - 1].end ]
      Cat(ps) == CatRange(ps, 1, Len(ps))
  IN  Cat(Ordered({ j \in k..i : ends[j] = i }))

\* innerText of node k, ends[j] being SubtreeEnd(nodes, j): the text of the
\* nodes of its subtree in document order
InnerText(nodes, ends, k) ==
  LET Piece(i) ==
        TCat(TCat(IF i = k THEN Empty ELSE nodes[i].before, nodes[i].start),
             Closes(nodes, ends, k, i))
      Cat(ps) == CatRange(ps, 1, Len(ps))
  IN  Cat([ r \in 1..(ends[k] - k + 1) |-> Piece(k + r - 1) ])

Newline == << "\n" >>

\* the nodes of the page with the sections ks: body, then each section with
\* the parent indices moved; a line break separates two sections
RECURSIVE PageNodes(_, _)
PageNodes(ks, sofar) ==
  IF ks = << >> THEN sofar
  ELSE LET sec == Section(ks[1])
           off == Len(sofar)
           mv  == [ i \in 1..Len(sec) |->
                    [ sec[i] EXCEPT !.up = IF @ = 0 THEN 1 ELSE @ + off,
                                    !.before = IF sec[i].up = 0 /\ off > 1
                                               THEN T0(Newline) ELSE @ ] ]
       IN  PageNodes(Tail(ks), sofar \o mv)

Body == Node("body", 0, Empty, Empty, Empty, NoLink)

\* the document of a page: its elements with their innerText
Document(ks) ==
  LET Elements(nodes, ends) ==
        [ i \in 1..Len(nodes) |->
          [ tag |-> nodes[i].tag, up |-> nodes[i].up,
            text |-> InnerText(nodes, ends, i),
            attr |-> nodes[i].attr, href |-> nodes[i].href ] ]
      WithEnds(nodes) ==
        Elements(nodes, [ j \in 1..Len(nodes) |-> SubtreeEnd(nodes, j) ])
  IN  WithEnds(PageNodes(ks, << Body >>))

(***************************************************************************)
(* DOM queries                                                             *)
(***************************************************************************)
Indices(doc) == [ i \in 1..Len(doc) |-> i ]

\* el.closest('header, nav, footer') is not null
RECURSIVE InNav(_, _)
InNav(doc, e) ==
  IF e = 0 THEN FALSE
  ELSE IF doc[e].tag = "nav" THEN TRUE
  ELSE InNav(doc, doc[e].up)

\* e is a proper descendant of top
RECURSIVE IsInside(_, _, _)
IsInside(doc, e, top) ==
  IF e = 0 \/ doc[e].up = 0 THEN FALSE
  ELSE IF doc[e].up = top THEN TRUE
  ELSE IsInside(doc, doc[e].up, top)

\* fetch-data.js: querySelectorAll('a[href]') filtered by isExternalPollUrl
AnchorsA(doc) ==
  SelectSeq(Indices(doc),
            LAMBDA i : doc[i].tag = "a" /\ isExternalPollUrl(doc[i].attr))

\* fetch-data_RTW2.js: querySelectorAll('a[href]') outside header, nav and
\* footer, filtered by !isNoiseHref
AnchorsB(doc) ==
  SelectSeq(Indices(doc),
            LAMBDA i : doc[i].tag = "a" /\ ~ InNav(doc, i) /\ ~ isNoiseHref(doc[i].attr))

FallbackScanCap == 2500

\* querySelectorAll('div, li, p, article, section') outside header, nav and
\* footer, .slice(0, 2500)
FallbackElems(doc) ==
  FirstN(SelectSeq(Indices(doc), LAMBDA i : doc[i].tag = "div" /\ ~ InNav(doc, i)),
         FallbackScanCap)

\* Array.from(el.querySelectorAll('a[href]'))
\*   .filter(x => !isNoiseHref(x.getAttribute('href'))).map(x => x.href)
LinksIn(doc, el) ==
  LET Hrefs(as) == [ j \in 1..Len(as) |-> doc[as[j]].href ]
  IN  Hrefs(SelectSeq(Indices(doc),
                      LAMBDA i : doc[i].tag = "a" /\ IsInside(doc, i, el)
                                 /\ ~ isNoiseHref(doc[i].attr)))

WalkDepthA == 8
WalkDepthB == 10

\* the predicate of the walk, v being "A" or "B"
IsBlock(v, t) == IF v = "A" THEN isPollBlockA(t) ELSE isLikelyPollBlock(t)

\* WalkUp without the bound on i
RECURSIVE WalkUpUnbounded(_, _, _, _, _)
WalkUpUnbounded(v, doc, el, i, depth) ==
  IF el = 0 THEN 0
  ELSE IF IsBlock(v, Trim(doc[el].text)) THEN el
  ELSE WalkUpUnbounded(v, doc, doc[el].up, i + 1, depth)

\* for (let i = 0; i < depth && el; i++) { const txt = (el.innerText || '').trim();
\* if (predicate) { chosen = el; break; } el = el.parentElement; } : the chosen
\* element, 0 for null
RECURSIVE WalkUp(_, _, _, _, _)
WalkUp(v, doc, el, i, depth) ==
  IF i >= depth \/ el = 0 THEN 0
  ELSE IF IsBlock(v, Trim(doc[el].text)) THEN el
  ELSE WalkUp(v, doc, doc[el].up, i + 1, depth)

ChosenA(doc, a) == WalkUp("A", doc, a, 0, WalkDepthA)
ChosenB(doc, a) == WalkUp("B", doc, a, 0, WalkDepthB)

(***************************************************************************)
(* Record assembly                                                         *)
(***************************************************************************)
MaxResultsA == 10
MaxResultsB == 12
DateLookA == 8
DateLookB == 12

\* let bestUrl = a.href || ''; for (const h of links) { if (outbound) {
\* bestUrl = h; break; } } if (!bestUrl && links.length) bestUrl = links[0] || ''
BestUrlLink(href, links) ==
  LET OrFirst(b) == IF b = << >> /\ Len(links) > 0 THEN links[1] ELSE b
      Outbound(k) == OrFirst(IF k > 0 THEN links[k] ELSE href)
  IN  Outbound(First(1, Len(links), LAMBDA j : isOutbound(links[j])))

\* links.find(outbound) || links[0] || ''
BestUrlFallback(links) ==
  LET Found(k) == IF k > 0 THEN links[k]
                  ELSE IF Len(links) > 0 THEN links[1]
                  ELSE << >>
  IN  Found(First(1, Len(links), LAMBDA j : isOutboundFallback(links[j])))

\* The record pushed for the element el.  frame, el, via and anchor are not
\* fields of the program's record: they name where the record came from.
\* txt is chosen.innerText in the link-driven loop and the trimmed innerText
\* in the fallback loop.
RecordA(doc, f, a, el, txt) ==
  [ url |-> doc[a].href,
    pollster |-> pickPollsterA(txt),
    date_text |-> extractDateText(txt, DateLookA),
    results_text |-> clean(txt),
    results |-> extractResults(txt, MaxResultsA),
    frame |-> f, el |-> el, via |-> "link", anchor |-> a ]

RecordB(doc, f, a, el, via, txt) ==
  [ url |-> IF via = "link" THEN BestUrlLink(doc[a].href, LinksIn(doc, el))
            ELSE BestUrlFallback(LinksIn(doc, el)),
    pollster |-> pickPollsterB(txt),
    date_text |-> extractDateText(txt, DateLookB),
    results_text |-> clean(txt),
    results |-> extractResults(txt, MaxResultsB),
    frame |-> f, el |-> el, via |-> via, anchor |-> a ]

\* fetch-data.js: if (results.length === 0 && !/%/.test(txt)) continue;
SkipA(txt, results) == Len(results) = 0 /\ ~ Includes(txt.core, Percent)

\* fetch-data_RTW2.js: if (results.length === 0) continue;
SkipB(txt, results) == Len(results) = 0

(***************************************************************************)
(* dedupe                                                                  *)
(***************************************************************************)
KeyLen == 160
Bar == << "|" >>

\* the characters of a text of at most KeyLen characters
Chars(t) == t.core \o [ i \in 1..t.pad |-> PadChar ]

\* `${p.url || ''}|${(p.results_text || '').slice(0, 160)}|${p.date_text || ''}`
Key(p) ==
  p.url \o Bar \o Chars(Slice0(p.results_text, KeyLen)) \o Bar \o p.date_text

(***************************************************************************)
(* run(): the state machine                                                *)
(***************************************************************************)
VARIABLES
  variant,   \* "A": fetch-data.js, "B": fetch-data_RTW2.js
  maxPolls,  \* MAX_POLLS
  pages,     \* the sections of each frame of the page (one frame in "A")
  docs,      \* the document of each frame
  pc,        \* "frames", "link", "fallback", "ret", "dedupe", "done", "crashed"
  fi,        \* the frame being evaluated
  anchors,   \* the anchors of the link-driven loop
  ai,        \* the next anchor
  elems,     \* the containers of the fallback loop
  ei,        \* the next container
  blocks,    \* blocks of the evaluation under way
  seenEl,    \* seenEl of the evaluation under way
  parts,     \* what the evaluation of each frame so far returned
  threw,     \* the frames whose evaluation threw
  polls,     \* the records run() has collected
  di,        \* dedupe: the next record
  seen,      \* dedupe: the keys seen
  out,       \* dedupe: the records kept
  result,    \* out.polls
  status,    \* "running", "written", "tooFew" or "failed"
  txt,       \* extractResults on its own: the text
  extracted  \* extractResults on its own: what it returned

runVars == << variant, maxPolls, pages, docs, pc, fi, anchors, ai, elems, ei, blocks,
              seenEl, parts, threw, polls, di, seen, out, result, status >>
textVars == << txt, extracted >>
vars == << runVars, textVars >>

MaxSections == 2

DefaultMaxPolls == 600
MinRows == 10
FallbackBelow == 5

\* MAX_POLLS = Number(process.env.MAX_POLLS || 600)
MaxPollsChoices == { 0, 1, 2, DefaultMaxPolls }

IsPadded(k) == \E i \in 1..Len(PaddedKinds) : PaddedKinds[i] = k
KindIndex(k) == CHOOSE i \in 1..Len(Kinds) : Kinds[i] = k

\* The pages of the model: at most MaxSections sections, in the order of
\* Kinds, a padded section only as the last one.
SectionLists ==
  { s \in UNION { [ 1..m -> { Kinds[i] : i \in 1..Len(Kinds) } ] : m \in 0..MaxSections } :
      /\ \A i \in 1..(Len(s) - 1) : KindIndex(s[i]) <= KindIndex(s[i + 1])
      /\ \A i \in 1..(Len(s) - 1) : ~ IsPadded(s[i]) }

\* page.frames(): the main frame alone, or the main frame and one iframe
FrameSplits(s) ==
  { << s >> } \cup { << SubSeq(s, 1, k), SubSeq(s, k + 1, Len(s)) >> : k \in 0..Len(s) }

Doc(f) == docs[f]

Init ==
  /\ variant \in { "A", "B" }
  /\ maxPolls \in MaxPollsChoices
  /\ \E s \in SectionLists :
       pages \in IF variant = "A" THEN { << s >> } ELSE FrameSplits(s)
  /\ docs = [ f \in 1..Len(pages) |-> Document(pages[f]) ]
  /\ pc = "frames"
  /\ fi = 0
  /\ anchors = << >> /\ ai = 0
  /\ elems = << >> /\ ei = 0
  /\ blocks = << >> /\ seenEl = {}
  /\ parts = << >> /\ threw = {}
  /\ polls = << >>
  /\ di = 0 /\ seen = {} /\ out = << >>
  /\ result = << >>
  /\ status = "running"
  /\ txt = Empty /\ extracted = << >>

\* page.evaluate(...) in fetch-data.js; for (const f of frames)
\* extractPollsInFrame(f) in fetch-data_RTW2.js: the anchors are collected
StartFrame ==
  /\ pc = "frames" /\ fi < Len(pages)
  /\ fi' = fi + 1
  /\ anchors' = IF variant = "A" THEN AnchorsA(Doc(fi + 1)) ELSE AnchorsB(Doc(fi + 1))
  /\ ai' = 1
  /\ blocks' = << >> /\ seenEl' = {}
  /\ pc' = "link"
  /\ UNCHANGED << variant, maxPolls, pages, docs, elems, ei, parts, threw, polls, di,
                  seen, out, result, status, textVars >>

\* one iteration of for (const a of anchors)
LinkStep ==
  /\ pc = "link" /\ ai <= Len(anchors)
  /\ LET Push(rec, skip) ==
           IF skip
           THEN /\ ai' = ai + 1
                /\ UNCHANGED blocks
           ELSE /\ blocks' = Append(blocks, rec)
                /\ ai' = IF Len(blocks) + 1 >= maxPolls
                         THEN Len(anchors) + 1 ELSE ai + 1
         Assemble(t, rec) ==
           Push(rec, IF variant = "A" THEN SkipA(t, rec.results)
                     ELSE SkipB(t, rec.results))
         Visit(doc, a, chosen) ==
           IF chosen = 0 \/ (variant = "B" /\ chosen \in seenEl)
           THEN /\ ai' = ai + 1
                /\ UNCHANGED << blocks, seenEl >>
           ELSE /\ seenEl' = IF variant = "B" THEN seenEl \cup { chosen } ELSE seenEl
                /\ Assemble(doc[chosen].text,
                            IF variant = "A"
                            THEN RecordA(doc, fi, a, chosen, doc[chosen].text)
                            ELSE RecordB(doc, fi, a, chosen, "link", doc[chosen].text))
         Walk(doc, a) ==
           Visit(doc, a, IF variant = "A" THEN ChosenA(doc, a) ELSE ChosenB(doc, a))
     IN  Walk(Doc(fi), anchors[ai])
  /\ UNCHANGED << variant, maxPolls, pages, docs, pc, fi, anchors, elems, ei, parts,
                  threw, polls, di, seen, out, result, status, textVars >>

\* RunsFallback with the test on blocks.length left out
RunsFallbackAlways(v, n) == v = "B"

\* fetch-data_RTW2.js: if (blocks.length < 5) { ...the fallback scan... };
\* fetch-data.js has no fallback scan
RunsFallback(v, n) == v = "B" /\ n < FallbackBelow

\* the link-driven loop is over: fetch-data.js returns blocks;
\* fetch-data_RTW2.js scans the containers if (blocks.length < 5)
LinkExit ==
  /\ pc = "link" /\ ai > Len(anchors)
  /\ IF RunsFallback(variant, Len(blocks))
     THEN /\ elems' = FallbackElems(Doc(fi))
          /\ ei' = 1
          /\ pc' = "fallback"
     ELSE /\ pc' = "ret"
          /\ UNCHANGED << elems, ei >>
  /\ UNCHANGED << variant, maxPolls, pages, docs, fi, anchors, ai, blocks, seenEl,
                  parts, threw, polls, di, seen, out, result, status, textVars >>

\* one iteration of for (const el of elems)
FallbackStep ==
  /\ pc = "fallback" /\ ei <= Len(elems)
  /\ LET Push(rec, skip) ==
           IF skip
           THEN /\ ei' = ei + 1
                /\ UNCHANGED blocks
           ELSE /\ blocks' = Append(blocks, rec)
                /\ ei' = IF Len(blocks) + 1 >= maxPolls
                         THEN Len(elems) + 1 ELSE ei + 1
         Assemble(t, rec) == Push(rec, SkipB(t, rec.results))
         Visit(doc, el, t) ==
           IF ~ isLikelyPollBlock(t)
           THEN /\ ei' = ei + 1
                /\ UNCHANGED blocks
           ELSE Assemble(t, RecordB(doc, fi, 0, el, "fallback", t))
         Scan(doc, el) == Visit(doc, el, Trim(doc[el].text))
     IN  Scan(Doc(fi), elems[ei])
  /\ UNCHANGED << variant, maxPolls, pages, docs, pc, fi, anchors, ai, elems, seenEl,
                  parts, threw, polls, di, seen, out, result, status, textVars >>

FallbackExit ==
  /\ pc = "fallback" /\ ei > Len(elems)
  /\ pc' = "ret"
  /\ UNCHANGED << variant, maxPolls, pages, docs, fi, anchors, ai, elems, ei, blocks,
                  seenEl, parts, threw, polls, di, seen, out, result, status,
                  textVars >>

\* the evaluation returns blocks.  fetch-data.js: polls = blocks, then dedupe.
\* fetch-data_RTW2.js: if (Array.isArray(part) && part.length)
\* polls = polls.concat(part), then the next frame.
FrameReturn ==
  /\ pc = "ret"
  /\ parts' = Append(parts, blocks)
  /\ polls' = IF Len(blocks) > 0 THEN polls \o blocks ELSE polls
  /\ pc' = IF variant = "A" THEN "dedupe" ELSE "frames"
  /\ di' = IF variant = "A" THEN 1 ELSE di
  /\ anchors' = << >> /\ ai' = 0 /\ elems' = << >> /\ ei' = 0
  /\ blocks' = << >> /\ seenEl' = {}
  /\ UNCHANGED << variant, maxPolls, pages, docs, fi, threw, seen, out, result, status,
                  textVars >>

\* the evaluation throws.  fetch-data_RTW2.js: catch (_) { return []; }, and
\* run() goes on with the next frame.  fetch-data.js: run() rejects and
\* run().catch(...) calls process.exit(1).
EvalThrows ==
  /\ pc \in { "link", "fallback", "ret" }
  /\ threw' = threw \cup { fi }
  /\ IF variant = "B"
     THEN /\ parts' = Append(parts, << >>)
          /\ pc' = "frames"
          /\ UNCHANGED status
     ELSE /\ pc' = "crashed"
          /\ status' = "failed"
          /\ UNCHANGED parts
  /\ anchors' = << >> /\ ai' = 0 /\ elems' = << >> /\ ei' = 0
  /\ blocks' = << >> /\ seenEl' = {}
  /\ UNCHANGED << variant, maxPolls, pages, docs, fi, polls, di, seen, out, result,
                  textVars >>

\* fetch-data_RTW2.js: the loop over the frames is over
FramesDone ==
  /\ pc = "frames" /\ fi = Len(pages)
  /\ pc' = "dedupe"
  /\ di' = 1
  /\ UNCHANGED << variant, maxPolls, pages, docs, fi, anchors, ai, elems, ei, blocks,
                  seenEl, parts, threw, polls, seen, out, result, status,
                  textVars >>

\* one iteration of for (const p of polls) in dedupe
DedupeStep ==
  /\ pc = "dedupe" /\ di <= Len(polls)
  /\ LET Keep(key) ==
           IF key \in seen
           THEN UNCHANGED << seen, out >>
           ELSE /\ seen' = seen \cup { key }
                /\ out' = Append(out, polls[di])
     IN  Keep(Key(polls[di]))
  /\ di' = di + 1
  /\ UNCHANGED << variant, maxPolls, pages, docs, pc, fi, anchors, ai, elems, ei,
                  blocks, seenEl, parts, threw, polls, result, status, textVars >>

\* FinalPolls without the slice
FinalPollsUncut(deduped, n) == deduped

\* polls: dedupe(polls).slice(0, MAX_POLLS)
FinalPolls(deduped, n) == FirstN(deduped, n)

\* the output is built; fewer than 10 rows is an error
Finish ==
  /\ pc = "dedupe" /\ di > Len(polls)
  /\ result' = FinalPolls(out, maxPolls)
  /\ status' = IF Len(FinalPolls(out, maxPolls)) < MinRows THEN "tooFew" ELSE "written"
  /\ pc' = "done"
  /\ UNCHANGED << variant, maxPolls, pages, docs, fi, anchors, ai, elems, ei, blocks,
                  seenEl, parts, threw, polls, di, seen, out, textVars >>

Next ==
  \/ StartFrame
  \/ LinkStep
  \/ LinkExit
  \/ FallbackStep
  \/ FallbackExit
  \/ FrameReturn
  \/ EvalThrows
  \/ FramesDone
  \/ DedupeStep
  \/ Finish

Spec == Init /\ [][Next]_vars

(***************************************************************************)
(* extractResults on its own: the texts are at most MaxTokens tokens       *)
(***************************************************************************)
MaxTokens == 4

TextTokens ==
  { << "S", "m", "i", "t", "h", " " >>, << "4", "7" >>, << "9", "9", ".", "5" >>, << "1" >>, << "%" >>, << "-" >>, << " " >>, << "." >> }

RECURSIVE Flatten(_)
Flatten(ss) == IF ss = << >> THEN << >> ELSE ss[1] \o Flatten(Tail(ss))

Texts == { Flatten(s) : s \in UNION { [ 1..m -> TextTokens ] : m \in 0..MaxTokens } }

InitText ==
  /\ variant \in { "A", "B" }
  /\ maxPolls = DefaultMaxPolls
  /\ pages = << << >> >>
  /\ docs = << Document(<< >>) >>
  /\ pc = "text"
  /\ fi = 0
  /\ anchors = << >> /\ ai = 0
  /\ elems = << >> /\ ei = 0
  /\ blocks = << >> /\ seenEl = {}
  /\ parts = << >> /\ threw = {}
  /\ polls = << >>
  /\ di = 0 /\ seen = {} /\ out = << >>
  /\ result = << >>
  /\ status = "running"
  /\ \E c \in Texts : txt = Txt(c, 0)
  /\ extracted = << >>

\* const results = extractResults(txt)
ExtractText ==
  /\ pc = "text"
  /\ extracted' = extractResults(txt, IF variant = "A" THEN MaxResultsA ELSE MaxResultsB)
  /\ pc' = "extracted"
  /\ UNCHANGED << variant, maxPolls, pages, docs, fi, anchors, ai, elems, ei, blocks,
                  seenEl, parts, threw, polls, di, seen, out, result, status, txt >>

NextText == ExtractText

SpecText == InitText /\ [][NextText]_vars

(***************************************************************************)
(* Properties                                                              *)
(***************************************************************************)
\* the element a record was assembled from
SourceElement(p) == Doc(p.frame)[p.el]

\* C1: every record of the final polls list has a non-empty results
\* sequence; a block whose extraction yields no entry never appears in it.
C1_NoEmptyResults ==
  \A i \in 1..Len(result) : Len(result[i].results) > 0

\* the three values dedupe is to compare
Triple(p) == << p.url, Slice0(p.results_text, KeyLen), p.date_text >>

\* the records of ps that no earlier record of ps equals on the three values
FirstOfEachTriple(ps) ==
  LET Pick(idx) == [ k \in 1..Len(idx) |-> ps[idx[k]] ]
  IN  Pick(SelectSeq(Indices(ps),
                     LAMBDA i : \A j \in 1..(i - 1) : Triple(ps[j]) # Triple(ps[i])))

\* C2: dedupe keeps a record exactly when no earlier record has the same
\* (url, first 160 characters of results_text, date_text), in discovery order.
C2_DedupeKeepsFirstOfEachTriple ==
  pc = "done" => out = FirstOfEachTriple(polls)

\* C3: the final polls list never has more than MAX_POLLS records.
C3_AtMostMaxPolls ==
  Len(result) <= maxPolls

\* dedupe returned more than MAX_POLLS records and the output holds MAX_POLLS
C3_Truncated ==
  pc = "done" /\ maxPolls > 0 /\ Len(out) > maxPolls /\ Len(result) = maxPolls

\* C4: the url of a record is the first link inside its block that points
\* to an external domain when there is one; otherwise it is a link inside
\* the block; otherwise it is the empty string.  The links of a block are
\* those the scraper reads (the noise links left out).
C4_UrlIsFirstExternalLink ==
  \A i \in 1..Len(polls) :
    LET Selected(links, k) ==
          IF k > 0 THEN polls[i].url = links[k]
          ELSE IF Len(links) > 0 THEN \E j \in 1..Len(links) : polls[i].url = links[j]
          ELSE polls[i].url = << >>
        Among(links) ==
          Selected(links, First(1, Len(links), LAMBDA j : isOutbound(links[j])))
    IN  Among(LinksIn(Doc(polls[i].frame), polls[i].el))

\* C5: a frame whose evaluation throws contributes no record, the other
\* frames are still evaluated and their records are in the combined list,
\* and the pass is not aborted.
C5_FrameFailureIsolated ==
  /\ status # "failed"
  /\ pc \in { "dedupe", "done" } =>
       /\ Len(parts) = Len(pages)
       /\ polls = Flatten(parts)
       /\ \A f \in threw : parts[f] = << >>

\* C6: no record comes from an element whose trimmed text has 10 or 3000
\* characters.
C6_NeverTooShortOrTooLong ==
  \A i \in 1..Len(polls) :
    TLen(Trim(SourceElement(polls[i]).text)) \notin { 10, 3000 }

\* a percent sign and a keyword
HasPollSigns(t) ==
  Includes(t.core, Percent) /\ \E k \in Keywords : Includes(ToLower(t.core), k)

\* both passes of fetch-data_RTW2.js went over a frame that holds a container
\* of 10 characters and one of 3000, each with a percent sign and a keyword
C6_BothLengthsScanned ==
  /\ pc = "done" /\ variant = "B" /\ threw = {} /\ maxPolls = DefaultMaxPolls
  /\ \E f \in 1..Len(pages) :
       \A n \in { 10, 3000 } :
         \E e \in 1..Len(Doc(f)) :
           /\ Doc(f)[e].tag = "div"
           /\ TLen(Trim(Doc(f)[e].text)) = n
           /\ HasPollSigns(Doc(f)[e].text)
           /\ \E a \in 1..Len(Doc(f)) : Doc(f)[a].tag = "a" /\ Doc(f)[a].up = e

\* C7: the pollster of every record of the output has at most 100
\* characters.
C7_PollsterAtMost100 ==
  \A i \in 1..Len(result) : TLen(result[i].pollster) <= 100

\* v is a finite number between 0 and 100
InRange(v) == NumberIsFinite(v) /\ 0 <= v.num /\ v.num <= 100 * v.den

\* C8: every entry extractResults returns has a pct that is a finite number
\* between 0 and 100.
C8_PctInRange ==
  \A i \in 1..Len(extracted) : InRange(extracted[i].pct)

\* an entry with a fraction, within one of 100
C8_NearHundred ==
  /\ pc = "extracted"
  /\ \E i \in 1..Len(extracted) :
       extracted[i].pct.den > 1 /\ extracted[i].pct.num >= 99 * extracted[i].pct.den

\* C9: in the link-driven pass over a document, an enclosing element reached
\* from two inner links yields at most one record.
C9_ElementProcessedOnce ==
  \A i, j \in 1..Len(polls) :
    ( /\ polls[i].via = "link" /\ polls[j].via = "link"
      /\ polls[i].frame = polls[j].frame /\ polls[i].el = polls[j].el ) => i = j

\* C10: an element captured by the link-driven pass and by the fallback scan
\* of one frame has one record in the deduplicated final list.
C10_OneRecordPerBlock ==
  \A i, j \in 1..Len(result) :
    ~ ( /\ result[i].via = "link" /\ result[j].via = "fallback"
        /\ result[i].frame = result[j].frame /\ result[i].el = result[j].el )

\* C11: for a cap MAX_POLLS >= 1, the blocks one frame's evaluation collects,
\* link-driven pass and fallback scan together, are never more than MAX_POLLS.
C11_BlocksWithinCap ==
  maxPolls >= 1 =>
    /\ Len(blocks) <= maxPolls
    /\ \A f \in 1..Len(parts) : Len(parts[f]) <= maxPolls

\* element i of the chain a, a's parent, a's grandparent, ...; 0 past the top
RECURSIVE ChainAt(_, _, _)
ChainAt(doc, a, i) ==
  IF a = 0 \/ i = 0 THEN a ELSE ChainAt(doc, doc[a].up, i - 1)

Qualifies(doc, e) == e # 0 /\ IsBlock(variant, Trim(doc[e].text))

ChainBound == IF variant = "A" THEN WalkDepthA ELSE WalkDepthB

\* the nearest of the first ChainBound chain elements that qualifies, else 0
NearestWithin(doc, a) ==
  LET Found(i) == IF i = ChainBound THEN 0 ELSE ChainAt(doc, a, i)
  IN  Found(CHOOSE i \in 0..ChainBound :
              /\ i = ChainBound \/ Qualifies(doc, ChainAt(doc, a, i))
              /\ \A j \in 0..(i - 1) : ~ Qualifies(doc, ChainAt(doc, a, j)))

\* the records of the link-driven pass: those pushed in the frame under
\* evaluation and those of the frames evaluated before
LinkRecords == SelectSeq(polls \o blocks, LAMBDA p : p.via = "link")

\* C12: the block of a record of the link-driven pass is the nearest element
\* of the chain link, parent, grandparent, ... whose text satisfies the
\* predicate, among the first 8 (fetch-data.js) or 10 (fetch-data_RTW2.js)
\* elements of the chain; a link with no such element yields no record.
C12_NearestWithinDepth ==
  LET IsNearest(p, e) == e # 0 /\ p.el = e
  IN  \A k \in 1..Len(blocks) :
        blocks[k].via = "link" =>
          IsNearest(blocks[k], NearestWithin(Doc(fi), blocks[k].anchor))

\* a finished run over a frame with a link that has a qualifying ancestor
\* only past the bound and yielded no record, and with a record whose block is
\* at least 8 elements above its link
C12_PastTheBound ==
  /\ pc = "done" /\ threw = {}
  /\ \E f \in 1..Len(pages) :
       /\ \E a \in 1..Len(Doc(f)) :
            /\ Doc(f)[a].tag = "a" /\ Doc(f)[a].href = ExtP.href
            /\ NearestWithin(Doc(f), a) = 0
            /\ \E i \in ChainBound..(ChainBound + 2) : Qualifies(Doc(f), ChainAt(Doc(f), a, i))
            /\ \A k \in 1..Len(LinkRecords) :
                 ~ (LinkRecords[k].frame = f /\ LinkRecords[k].anchor = a)
       /\ \E k \in 1..Len(LinkRecords) :
            /\ LinkRecords[k].frame = f
            /\ \A i \in 0..7 :
                 ChainAt(Doc(f), LinkRecords[k].anchor, i) # LinkRecords[k].el

LinkCount(bs) == Len(SelectSeq(bs, LAMBDA p : p.via = "link"))
FallbackCount(bs) == Len(SelectSeq(bs, LAMBDA p : p.via = "fallback"))

\* in bs no record of the fallback scan comes before a record of the
\* link-driven pass
LinkFirst(bs) ==
  \A i, j \in 1..Len(bs) : (bs[i].via = "fallback" /\ bs[j].via = "link") => j < i

\* a list of blocks of fetch-data_RTW2.js in the order C13 describes
FallbackOrder(bs) ==
  /\ LinkCount(bs) >= FallbackBelow => FallbackCount(bs) = 0
  /\ LinkFirst(bs)

\* C13: in one frame's extraction of fetch-data_RTW2.js the fallback scan
\* starts exactly when the link-driven pass ends with fewer than 5 blocks;
\* with 5 or more no record comes from the fallback scan, and the records of
\* the fallback scan follow all the records of the link-driven pass in the
\* returned list.
C13_FallbackBelowFive ==
  /\ [] ( variant = "B" =>
            /\ pc = "fallback" => LinkCount(blocks) < FallbackBelow
            /\ FallbackOrder(blocks)
            /\ \A f \in 1..Len(parts) : FallbackOrder(parts[f]) )
  /\ [][ (variant = "B" /\ pc = "link" /\ pc' \in { "fallback", "ret" }) =>
           (pc' = "fallback" <=> LinkCount(blocks) < FallbackBelow) ]_vars

\* a finished run of fetch-data_RTW2.js with a frame that returned 5 or more
\* records, none from the fallback scan, and a frame that returned a record
\* of the link-driven pass and, behind it, one of the fallback scan
C13_BothCases ==
  /\ pc = "done" /\ variant = "B" /\ threw = {}
  /\ \E f \in 1..Len(parts) :
       LinkCount(parts[f]) >= FallbackBelow /\ FallbackCount(parts[f]) = 0
  /\ \E f \in 1..Len(parts) :
       LinkCount(parts[f]) > 0 /\ FallbackCount(parts[f]) > 0

\* polls[i] has been through dedupe and is not in its output
Dropped(i) == i < di /\ \A k \in 1..Len(out) : out[k] # polls[i]

\* C14: dedupe drops a record only when an earlier record has the same url,
\* the same first 160 characters of results_text and the same date_text,
\* whatever characters these values contain.
C14_DropsOnlyEqualTriples ==
  pc \in { "dedupe", "done" } =>
    \A i \in 1..Len(polls) :
      Dropped(i) => \E j \in 1..(i - 1) : Triple(polls[j]) = Triple(polls[i])

=============================================================================
